---- MODULE Spec2Model ----
(***************************************************************************)
(* A model of the std::pmr experiments: the DebugMemoryResource decorator  *)
(* of pmr_test.cpp (std::size_t counters) and pmr_eigen_test.cpp (int      *)
(* counters), the registry slot of eigen_memory_resource.cpp, and the      *)
(* scenarios the two harnesses run over chains of memory resources.        *)
(*                                                                         *)
(* A pointer is a pair <<block, offset>>: the block the bottom resource    *)
(* handed out and a byte offset inside it.  Integer widths are scaled      *)
(* down (SizeBits for std::size_t, IntBits for int, IntBits < SizeBits as  *)
(* 32 < 64) and all arithmetic on the counters is done in those widths.    *)
(***************************************************************************)
EXTENDS Integers, Sequences, FiniteSets, TLC

(***************************************************************************)
(* Bounds of the model.                                                    *)
(***************************************************************************)
\* width of std::size_t, scaled down from 64
SizeBits == 6
\* width of int, scaled down from 32
IntBits == 4
\* the largest of the small request sizes a client draws from
MaxBytes == 2
\* calls a client makes on the decorator in SpecDebug
MaxCalls == 3
\* calls orchestration code makes in SpecRegistry
MaxSteps == 4
\* allocations a workload makes in one test of the harness
MaxAllocs == 3
\* bytes the system allocator can hand out before it throws std::bad_alloc
MemCap == 20
\* size of the first region an arena requests from its upstream
InitialRegion == 4
\* the arena's growth policy: next region = previous region * GrowthFactor
GrowthFactor == 2
\* the pool's size classes are 2^0 .. 2^MaxClassExp bytes
MaxClassExp == 2
\* blocks of one size class the pool requests from upstream in one chunk
BlocksPerChunk == 2

SizeMod == 2 ^ SizeBits
IntMod == 2 ^ IntBits
\* the first size an int cannot hold (2^31 in the program)
HugeBytes == IntMod \div 2
\* the sizes a client requests: the smallest, a small one, a huge one
Sizes == {1, MaxBytes, HugeBytes}
Alignments == {1, 2}
\* alignof(std::max_align_t), scaled down with the sizes
MaxAlign == CHOOSE a \in Alignments : \A b \in Alignments : b <= a
Classes == {2 ^ k : k \in 0 .. MaxClassExp}
LargestClass == 2 ^ MaxClassExp
NullPtr == <<0, 0>>
Programs == {"pmr_test", "pmr_eigen_test"}

(***************************************************************************)
(* References to resources (memory_resource pointers).  An object is named *)
(* by the variable that holds it and the test that made it, so a pointer    *)
(* to a destroyed object is not a pointer to the object that later takes   *)
(* its place.                                                              *)
(***************************************************************************)
Ref(n, t) == [name |-> n, test |-> t]
NullRef == Ref("nullptr", 0)
\* pmr::new_delete_resource()
new_delete_resource == Ref("new_delete", 0)
\* std::pmr::get_default_resource(), never replaced in the program
get_default_resource == new_delete_resource

VARIABLES
    program,      \* which translation unit runs: pmr_test or pmr_eigen_test
    db_mem,       \* the DebugMemoryResource object
    buf_mem,      \* the monotonic_buffer_resource object (the Arena)
    pool_mem,     \* the unsynchronized_pool_resource object (the Pool)
    heap,         \* new_delete_resource(): the blocks it has handed out
    upstream,     \* SpecDebug: the resource db_mem.upstream points to
    state,        \* eigen_memory_resource.cpp: state.memory, the registry slot
    trace,        \* the allocate/deallocate calls made on each resource
    ub,           \* the run has reached undefined behaviour
    live,         \* the client's allocations not yet deallocated
    calls,        \* calls the client has made (bounded)
    pc,           \* where main is
    test,         \* how many of main's tests have been called
    stack,        \* the resource objects of the running test, oldest first
    memory,       \* pmr_test.cpp: the argument of do_tests
    ret,          \* what the last get_eigen_memory_resource() returned
    equal,        \* what the last is_equal call on db_mem returned
    installed,    \* the argument of the last set_eigen_memory_resource()
    sum_alloc,    \* sum of the sizes passed to allocate
    sum_dealloc,  \* sum of the sizes passed to deallocate
    max_prefix,   \* largest sum_alloc - sum_dealloc after any prefix
    misuse        \* some deallocate did not match a live allocation

objects == <<db_mem, buf_mem, pool_mem, heap, upstream>>
ghosts == <<sum_alloc, sum_dealloc, max_prefix, misuse, installed>>
control == <<pc, test, stack, memory>>
vars ==
    <<program, objects, state, ret, equal, trace, ub, live, calls, control, ghosts>>

Max(a, b) == IF a > b THEN a ELSE b
Range(f) == {f[i] : i \in DOMAIN f}

RECURSIVE SumBytes(_)
SumBytes(S) ==
    IF S = {} THEN 0
    ELSE LET x == CHOOSE y \in S : TRUE IN x.bytes + SumBytes(S \ {x})

Block(p, b, a) == [ptr |-> p, bytes |-> b, alignment |-> a]

(***************************************************************************)
(* Integer conversions of the counters' arithmetic.                        *)
(***************************************************************************)
\* conversion of a value to std::size_t
ToSize(x) == x % SizeMod

\* conversion of a std::size_t value to int (modular narrowing)
ToInt(u) ==
    LET m == u % IntMod
    IN  IF m >= IntMod \div 2 THEN m - IntMod ELSE m

\* curr_bytes += bytes, in the counter type of the program
AddBytes(prog, curr, bytes) ==
    IF prog = "pmr_test"
    THEN ToSize(curr + bytes)
    ELSE ToInt(ToSize(ToSize(curr) + bytes))

\* curr_bytes -= bytes, in the counter type of the program
SubBytes(prog, curr, bytes) ==
    IF prog = "pmr_test"
    THEN ToSize(curr - bytes)
    ELSE ToInt(ToSize(ToSize(curr) - bytes))

\* the values of an int
Ints == (0 - IntMod \div 2) .. (IntMod \div 2 - 1)

\* ++n on an int counter at INT_MAX: signed overflow, undefined behaviour
Overflows(prog, n) == prog = "pmr_eigen_test" /\ n + 1 \notin Ints

\* ++num_allocs / ++num_deallocs in the counter type of the program; an
\* overflowed int holds whatever the build produces (w.junk)
Increment(w, n) ==
    IF w.program = "pmr_test" THEN ToSize(n + 1)
    ELSE IF Overflows(w.program, n) THEN w.junk
    ELSE n + 1

(***************************************************************************)
(* The world the resources' member functions act on: a record of the       *)
(* objects, threaded through a call and the calls it makes upstream.       *)
(* oracle says whether the bottom resource can satisfy the next request.   *)
(* A call returns [w, ptr, threw]: the world after it, the pointer it      *)
(* returned, and whether it left by an exception instead.                  *)
(***************************************************************************)
RECURSIVE Allocate(_, _, _, _)
RECURSIVE Deallocate(_, _, _, _, _)

Returned(w, p) == [w |-> w, ptr |-> p, threw |-> FALSE]
Threw(w) == [w |-> w, ptr |-> NullPtr, threw |-> TRUE]

(***************************************************************************)
(* DebugMemoryResource                                                     *)
(***************************************************************************)
NoDebug ==
    [alive |-> FALSE, test |-> 0, upstream |-> NullRef,
     num_allocs |-> 0, num_deallocs |-> 0, curr_bytes |-> 0, max_bytes |-> 0]

\* DebugMemoryResource db_mem{upstream}
DebugMemoryResource(up, t) ==
    [alive |-> TRUE, test |-> t, upstream |-> up,
     num_allocs |-> 0, num_deallocs |-> 0, curr_bytes |-> 0, max_bytes |-> 0]

\* do_allocate asking its upstream for max-aligned memory whatever the caller
\* asked for
do_allocate_max_align(w, bytes, alignment) ==
    LET d == w.db_mem
        c == AddBytes(w.program, d.curr_bytes, bytes)
        d1 == [d EXCEPT !.num_allocs = Increment(w, @),
                        !.curr_bytes = c,
                        !.max_bytes = IF c > @ THEN c ELSE @]
        w1 == [w EXCEPT !.db_mem = d1,
                        !.ub = @ \/ Overflows(w.program, d.num_allocs)]
    IN  Allocate(w1, d.upstream, bytes, MaxAlign)

\* do_allocate forwarding first and counting the request only if the upstream
\* returned
do_allocate_counting_after(w, bytes, alignment) ==
    LET d == w.db_mem
        c == AddBytes(w.program, d.curr_bytes, bytes)
        d1 == [d EXCEPT !.num_allocs = Increment(w, @),
                        !.curr_bytes = c,
                        !.max_bytes = IF c > @ THEN c ELSE @]
        r == Allocate(w, d.upstream, bytes, alignment)
    IN  IF r.threw THEN r
        ELSE [r EXCEPT !.w.db_mem = d1,
                       !.w.ub = @ \/ Overflows(w.program, d.num_allocs)]

\* DebugMemoryResource::do_allocate
do_allocate(w, bytes, alignment) ==
    LET d == w.db_mem
        c == AddBytes(w.program, d.curr_bytes, bytes)
        d1 == [d EXCEPT !.num_allocs = Increment(w, @),
                        !.curr_bytes = c,
                        !.max_bytes = IF c > @ THEN c ELSE @]
        w1 == [w EXCEPT !.db_mem = d1,
                        !.ub = @ \/ Overflows(w.program, d.num_allocs)]
    IN  Allocate(w1, d.upstream, bytes, alignment)

\* do_deallocate without its curr_bytes -= bytes
do_deallocate_no_subtract(w, ptr, bytes, alignment) ==
    LET d == w.db_mem
        d1 == [d EXCEPT !.num_deallocs = Increment(w, @)]
        w1 == [w EXCEPT !.db_mem = d1,
                        !.ub = @ \/ Overflows(w.program, d.num_deallocs)]
    IN  Deallocate(w1, d.upstream, ptr, bytes, alignment)

\* DebugMemoryResource::do_deallocate
do_deallocate(w, ptr, bytes, alignment) ==
    LET d == w.db_mem
        d1 == [d EXCEPT !.num_deallocs = Increment(w, @),
                        !.curr_bytes = SubBytes(w.program, @, bytes)]
        w1 == [w EXCEPT !.db_mem = d1,
                        !.ub = @ \/ Overflows(w.program, d.num_deallocs)]
    IN  Deallocate(w1, d.upstream, ptr, bytes, alignment)

\* DebugMemoryResource::do_is_equal: this == &other
do_is_equal(w, other) ==
    [w |-> w, ret |-> (other = Ref("db_mem", w.db_mem.test))]

(***************************************************************************)
(* SpecDebug's upstream: any memory_resource behind the pointer            *)
(* db_mem.upstream.  allocate returns a fresh block or throws, deallocate  *)
(* accepts whatever it is given (as monotonic_buffer_resource and          *)
(* null_memory_resource do).                                               *)
(***************************************************************************)
UpstreamInit == [issued |-> 0]

upstream_allocate(w, bytes, alignment) ==
    IF w.oracle
    THEN Returned([w EXCEPT !.upstream.issued = @ + 1],
                  <<w.upstream.issued + 1, 0>>)
    ELSE Threw(w)

upstream_deallocate(w, ptr, bytes, alignment) == w

(***************************************************************************)
(* new_delete_resource(): the system allocator at the bottom of every      *)
(* chain of the harness.  A request it cannot satisfy throws               *)
(* std::bad_alloc; a deallocate of a block it did not hand out, or with    *)
(* another size or alignment, is undefined behaviour.                      *)
(***************************************************************************)
HeapInit == [blocks |-> {}]

FreshBlock(h) ==
    CHOOSE k \in 1 .. Cardinality(h.blocks) + 1 :
        /\ \A b \in h.blocks : b.ptr[1] # k
        /\ \A j \in 1 .. k - 1 : \E b \in h.blocks : b.ptr[1] = j

new_delete_allocate(w, bytes, alignment) ==
    IF w.oracle /\ SumBytes(w.heap.blocks) + bytes <= MemCap
    THEN LET p == <<FreshBlock(w.heap), 0>>
         IN  Returned([w EXCEPT !.heap.blocks = @ \cup {Block(p, bytes, alignment)}], p)
    ELSE Threw(w)

new_delete_deallocate(w, ptr, bytes, alignment) ==
    IF Block(ptr, bytes, alignment) \in w.heap.blocks
    THEN [w EXCEPT !.heap.blocks = @ \ {Block(ptr, bytes, alignment)}]
    ELSE [w EXCEPT !.ub = TRUE]

(***************************************************************************)
(* The Arena: std::pmr::monotonic_buffer_resource.                         *)
(***************************************************************************)
NoArena ==
    [alive |-> FALSE, test |-> 0, upstream |-> NullRef,
     regions |-> <<>>, cursor |-> 0, next_size |-> 0]

\* pmr::monotonic_buffer_resource buf_mem{upstream}
monotonic_buffer_resource(up, t) ==
    [alive |-> TRUE, test |-> t, upstream |-> up,
     regions |-> <<>>, cursor |-> 0, next_size |-> InitialRegion]

AlignUp(n, a) == ((n + a - 1) \div a) * a

\* growth_policy(previous_region_size)
growth_policy(prev) == prev * GrowthFactor

\* an arena that keeps no region: every request goes to its upstream
arena_allocate_unbuffered(w, bytes, alignment) ==
    LET a == w.buf_mem
        r == Allocate(w, a.upstream, bytes, MaxAlign)
    IN  IF r.threw \/ r.w.ub
        THEN r
        ELSE Returned(
               [r.w EXCEPT !.buf_mem.regions =
                               Append(@, Block(r.ptr, bytes, MaxAlign))],
               r.ptr)

arena_allocate(w, bytes, alignment) ==
    LET a == w.buf_mem
        n == Len(a.regions)
        off == AlignUp(a.cursor, alignment)
    IN  IF n > 0 /\ off + bytes <= a.regions[n].bytes
        THEN Returned([w EXCEPT !.buf_mem.cursor = off + bytes],
                      <<a.regions[n].ptr[1], a.regions[n].ptr[2] + off>>)
        ELSE LET size == Max(bytes, a.next_size)
                 r == Allocate(w, a.upstream, size, MaxAlign)
             IN  IF r.threw \/ r.w.ub
                 THEN r
                 ELSE Returned(
                        [r.w EXCEPT !.buf_mem.regions =
                                        Append(@, Block(r.ptr, size, MaxAlign)),
                                    !.buf_mem.cursor = bytes,
                                    !.buf_mem.next_size = growth_policy(size)],
                        r.ptr)

\* deallocate is a no-op
arena_deallocate(w, ptr, bytes, alignment) == w

RECURSIVE ReleaseAll(_, _, _)
\* return every block of the sequence to the resource up, last first
ReleaseAll(w, up, blocks) ==
    IF blocks = <<>> THEN w
    ELSE LET b == blocks[Len(blocks)]
         IN  ReleaseAll(Deallocate(w, up, b.ptr, b.bytes, b.alignment), up,
                        SubSeq(blocks, 1, Len(blocks) - 1))

\* ~monotonic_buffer_resource: every owned region goes back to upstream
arena_destroy(w) ==
    [ReleaseAll(w, w.buf_mem.upstream, w.buf_mem.regions)
        EXCEPT !.buf_mem = NoArena]

(***************************************************************************)
(* The Pool: std::pmr::unsynchronized_pool_resource.                       *)
(***************************************************************************)
NoPool ==
    [alive |-> FALSE, test |-> 0, upstream |-> NullRef,
     chunks |-> <<>>, free |-> [c \in Classes |-> <<>>], big |-> <<>>]

\* pmr::unsynchronized_pool_resource pool_mem{upstream}
unsynchronized_pool_resource(up, t) ==
    [alive |-> TRUE, test |-> t, upstream |-> up,
     chunks |-> <<>>, free |-> [c \in Classes |-> <<>>], big |-> <<>>]

\* the size class of a request: the smallest class that holds it, aligned
ClassOf(bytes, alignment) ==
    CHOOSE c \in Classes :
        /\ c >= Max(bytes, alignment)
        /\ \A d \in Classes : d >= Max(bytes, alignment) => c <= d

Remove(seq, x) ==
    LET i == CHOOSE j \in 1 .. Len(seq) : seq[j] = x
    IN  SubSeq(seq, 1, i - 1) \o SubSeq(seq, i + 1, Len(seq))

pool_allocate(w, bytes, alignment) ==
    LET p == w.pool_mem
    IN  IF Max(bytes, alignment) > LargestClass
        THEN \* oversized: forwarded to upstream as it is
             LET r == Allocate(w, p.upstream, bytes, alignment)
             IN  IF r.threw \/ r.w.ub
                 THEN r
                 ELSE Returned([r.w EXCEPT !.pool_mem.big =
                                    Append(@, Block(r.ptr, bytes, alignment))],
                               r.ptr)
        ELSE LET c == ClassOf(bytes, alignment)
             IN  IF p.free[c] # <<>>
                 THEN Returned([w EXCEPT !.pool_mem.free[c] = Tail(@)],
                               Head(p.free[c]))
                 ELSE LET size == c * BlocksPerChunk
                          r == Allocate(w, p.upstream, size, MaxAlign)
                          rest == [i \in 1 .. BlocksPerChunk - 1 |->
                                      <<r.ptr[1], r.ptr[2] + i * c>>]
                      IN  IF r.threw \/ r.w.ub
                          THEN r
                          ELSE Returned(
                                 [r.w EXCEPT !.pool_mem.chunks =
                                                 Append(@, Block(r.ptr, size, MaxAlign)),
                                             !.pool_mem.free[c] = rest],
                                 r.ptr)

\* the pointer lies in a chunk the pool obtained from its upstream
PoolOwns(p, ptr) ==
    \E i \in 1 .. Len(p.chunks) :
        /\ p.chunks[i].ptr[1] = ptr[1]
        /\ p.chunks[i].ptr[2] <= ptr[2]
        /\ ptr[2] < p.chunks[i].ptr[2] + p.chunks[i].bytes

\* pool_deallocate losing the blocks of the size classes instead of keeping
\* them on the free lists
pool_deallocate_dropping(w, ptr, bytes, alignment) ==
    LET p == w.pool_mem
        b == Block(ptr, bytes, alignment)
    IN  IF Max(bytes, alignment) > LargestClass
        THEN IF \E i \in 1 .. Len(p.big) : p.big[i] = b
             THEN [Deallocate(w, p.upstream, ptr, bytes, alignment)
                      EXCEPT !.pool_mem.big = Remove(@, b)]
             ELSE [w EXCEPT !.ub = TRUE]
        ELSE IF PoolOwns(p, ptr) THEN w ELSE [w EXCEPT !.ub = TRUE]

\* a block of a size class goes onto its free list; an oversized block goes
\* back to upstream; a block that is not the pool's is undefined behaviour
pool_deallocate(w, ptr, bytes, alignment) ==
    LET p == w.pool_mem
        b == Block(ptr, bytes, alignment)
    IN  IF Max(bytes, alignment) > LargestClass
        THEN IF \E i \in 1 .. Len(p.big) : p.big[i] = b
             THEN [Deallocate(w, p.upstream, ptr, bytes, alignment)
                      EXCEPT !.pool_mem.big = Remove(@, b)]
             ELSE [w EXCEPT !.ub = TRUE]
        ELSE IF PoolOwns(p, ptr)
             THEN [w EXCEPT !.pool_mem.free[ClassOf(bytes, alignment)] = <<ptr>> \o @]
             ELSE [w EXCEPT !.ub = TRUE]

\* ~unsynchronized_pool_resource: every chunk and every oversized block
\* still held goes back to upstream
pool_destroy(w) ==
    [ReleaseAll(w, w.pool_mem.upstream, w.pool_mem.chunks \o w.pool_mem.big)
        EXCEPT !.pool_mem = NoPool]

(***************************************************************************)
(* memory_resource::allocate / deallocate: the virtual dispatch.  A call   *)
(* through a pointer to an object that no longer exists is undefined       *)
(* behaviour.  Every call is recorded in the trace when it returns.        *)
(***************************************************************************)
Exists(w, ref) ==
    CASE ref.name = "new_delete" -> TRUE
      [] ref.name = "upstream" -> TRUE
      [] ref.name = "db_mem" -> w.db_mem.alive /\ w.db_mem.test = ref.test
      [] ref.name = "buf_mem" -> w.buf_mem.alive /\ w.buf_mem.test = ref.test
      [] ref.name = "pool_mem" -> w.pool_mem.alive /\ w.pool_mem.test = ref.test
      [] OTHER -> FALSE

Call(o, n, p, b, a, t) ==
    [op |-> o, on |-> n, ptr |-> p, bytes |-> b, alignment |-> a, threw |-> t]

Allocate(w, ref, bytes, alignment) ==
    IF ~Exists(w, ref)
    THEN Returned([w EXCEPT !.ub = TRUE], NullPtr)
    ELSE LET r == CASE ref.name = "db_mem" -> do_allocate(w, bytes, alignment)
                    [] ref.name = "buf_mem" -> arena_allocate(w, bytes, alignment)
                    [] ref.name = "pool_mem" -> pool_allocate(w, bytes, alignment)
                    [] ref.name = "new_delete" -> new_delete_allocate(w, bytes, alignment)
                    [] ref.name = "upstream" -> upstream_allocate(w, bytes, alignment)
         IN  [r EXCEPT !.w.trace =
                 Append(@, Call("allocate", ref.name, r.ptr, bytes, alignment, r.threw))]

Deallocate(w, ref, ptr, bytes, alignment) ==
    IF ~Exists(w, ref)
    THEN [w EXCEPT !.ub = TRUE]
    ELSE LET w1 == CASE ref.name = "db_mem" -> do_deallocate(w, ptr, bytes, alignment)
                     [] ref.name = "buf_mem" -> arena_deallocate(w, ptr, bytes, alignment)
                     [] ref.name = "pool_mem" -> pool_deallocate(w, ptr, bytes, alignment)
                     [] ref.name = "new_delete" -> new_delete_deallocate(w, ptr, bytes, alignment)
                     [] ref.name = "upstream" -> upstream_deallocate(w, ptr, bytes, alignment)
         IN  [w1 EXCEPT !.trace =
                 Append(@, Call("deallocate", ref.name, ptr, bytes, alignment, FALSE))]

\* the destructor of the object a variable holds
Destroy(w, name) ==
    CASE name = "db_mem" -> [w EXCEPT !.db_mem = NoDebug]
      [] name = "buf_mem" -> arena_destroy(w)
      [] name = "pool_mem" -> pool_destroy(w)

\* the world of a call in which an overflowed int comes out as j
WorldUB(ok, j) ==
    [program |-> program, db_mem |-> db_mem, buf_mem |-> buf_mem,
     pool_mem |-> pool_mem, heap |-> heap, upstream |-> upstream,
     trace |-> trace, ub |-> ub, oracle |-> ok, junk |-> j]

\* the world of a call in a run too short for a counter to reach its limit
World(ok) == WorldUB(ok, 0)

\* the objects, the trace and the flag take their values from the world w
Becomes(w) ==
    /\ db_mem' = w.db_mem
    /\ buf_mem' = w.buf_mem
    /\ pool_mem' = w.pool_mem
    /\ heap' = w.heap
    /\ upstream' = w.upstream
    /\ trace' = w.trace
    /\ ub' = w.ub

\* the calls of the trace made on the resource a variable holds
CallsOn(name) == SelectSeq(trace, LAMBDA e : e.on = name)

\* a call as its caller and its callee both see it
Seen(e) == [e EXCEPT !.on = "any"]
SeenOn(name) ==
    LET s == CallsOn(name) IN [i \in 1 .. Len(s) |-> Seen(s[i])]

(***************************************************************************)
(* SpecDebug: a client calls allocate and deallocate on one freshly        *)
(* constructed DebugMemoryResource, with any arguments.                    *)
(***************************************************************************)
InitDebug ==
    /\ program \in Programs
    /\ db_mem = DebugMemoryResource(Ref("upstream", 0), 0)
    /\ buf_mem = NoArena
    /\ pool_mem = NoPool
    /\ heap = HeapInit
    /\ upstream = UpstreamInit
    /\ state = [memory |-> get_default_resource]
    /\ trace = <<>>
    /\ ub = FALSE
    /\ live = {}
    /\ calls = 0
    /\ pc = "client"
    /\ test = 0
    /\ stack = <<"db_mem">>
    /\ memory = NullRef
    /\ ret = NullRef
    /\ installed = NullRef
    /\ sum_alloc = 0
    /\ sum_dealloc = 0
    /\ max_prefix = 0
    /\ misuse = FALSE
    /\ equal = FALSE

ClientAllocate(bytes, alignment, ok) ==
    /\ calls < MaxCalls
    /\ LET r == Allocate(World(ok), Ref("db_mem", 0), bytes, alignment)
       IN  /\ Becomes(r.w)
           /\ live' = IF r.threw THEN live
                      ELSE live \cup {Block(r.ptr, bytes, alignment)}
    /\ calls' = calls + 1
    /\ sum_alloc' = sum_alloc + bytes
    /\ max_prefix' = Max(max_prefix, sum_alloc + bytes - sum_dealloc)
    /\ UNCHANGED <<program, equal, state, ret, control, sum_dealloc, misuse, installed>>

\* the pointers a client can pass: those it was given, and the null pointer
KnownPtrs ==
    {NullPtr} \cup {CallsOn("db_mem")[i].ptr : i \in 1 .. Len(CallsOn("db_mem"))}

ClientDeallocate(ptr, bytes, alignment) ==
    /\ calls < MaxCalls
    /\ Becomes(Deallocate(World(TRUE), Ref("db_mem", 0), ptr, bytes, alignment))
    /\ live' = live \ {Block(ptr, bytes, alignment)}
    /\ misuse' = (misuse \/ Block(ptr, bytes, alignment) \notin live)
    /\ calls' = calls + 1
    /\ sum_dealloc' = sum_dealloc + bytes
    /\ UNCHANGED <<program, equal, state, ret, control, sum_alloc, max_prefix, installed>>

NextDebug ==
    \/ \E b \in Sizes, a \in Alignments, ok \in BOOLEAN : ClientAllocate(b, a, ok)
    \/ \E p \in KnownPtrs, b \in Sizes, a \in Alignments : ClientDeallocate(p, b, a)

SpecDebug == InitDebug /\ [][NextDebug]_vars

(***************************************************************************)
(* The registry of eigen_memory_resource.cpp.                              *)
(***************************************************************************)
\* the initial value of state: memory{std::pmr::get_default_resource()}
StateInit == [memory |-> get_default_resource]

\* dr::get_eigen_memory_resource(): the state after the call and its result
get_eigen_memory_resource(st) == [state |-> st, ret |-> st.memory]

\* set_eigen_memory_resource taking effect only while the slot holds the
\* default resource
set_eigen_memory_resource_once(st, mem) ==
    IF st.memory = get_default_resource THEN [st EXCEPT !.memory = mem] ELSE st

\* dr::set_eigen_memory_resource(memory)
set_eigen_memory_resource(st, mem) == [st EXCEPT !.memory = mem]

(***************************************************************************)
(* The harness: main calls the tests in order.  Each test constructs       *)
(* db_mem over new_delete_resource(), then the objects of its inner block, *)
(* hands the head of the chain to the workload (through the registry in    *)
(* pmr_eigen_test.cpp, as the argument of do_tests in pmr_test.cpp), runs  *)
(* the workload, leaves the inner block, reports db_mem's counters and     *)
(* returns.                                                                *)
(***************************************************************************)
\* main: the tests in the order they are called
main(prog) ==
    IF prog = "pmr_test"
    THEN <<"no_resource_test", "default_resource_test", "pool_resource_test",
           "buffer_resource_test", "buffer_backed_pool_resource_test",
           "pool_backed_buffer_resource_test">>
    ELSE <<"default_resource_test", "pool_resource_test",
           "buffer_resource_test", "buffer_backed_pool_resource_test",
           "pool_backed_buffer_resource_test">>

\* the objects a test declares in its inner block, in declaration order
InnerBlock(t) ==
    CASE t = "pool_resource_test" -> <<"pool_mem">>
      [] t = "buffer_resource_test" -> <<"buf_mem">>
      [] t = "pool_backed_buffer_resource_test" -> <<"pool_mem", "buf_mem">>
      [] t = "buffer_backed_pool_resource_test" -> <<"buf_mem", "pool_mem">>
      [] OTHER -> <<>>

\* the constructor argument of the k-th object of a test's inner block
UpstreamArg(t, k) == IF k = 1 THEN "db_mem" ELSE InnerBlock(t)[k - 1]

\* every test handing &db_mem to the workload
Installed_db_mem(t) == "db_mem"

\* the object a test hands to set_eigen_memory_resource / do_tests
Installed(t) ==
    CASE t = "pool_resource_test" -> "pool_mem"
      [] t = "buffer_resource_test" -> "buf_mem"
      [] t = "pool_backed_buffer_resource_test" -> "buf_mem"
      [] t = "buffer_backed_pool_resource_test" -> "pool_mem"
      [] OTHER -> "db_mem"

\* destructors running in declaration order
NextDestroyed_first(stk) == stk[2]

\* the object whose destructor runs next when a block is left: the one
\* declared last among those still alive
NextDestroyed(stk) == stk[Len(stk)]

\* the constructor of the object a variable holds
Construct(w, name, up, t) ==
    CASE name = "db_mem" -> [w EXCEPT !.db_mem = DebugMemoryResource(up, t)]
      [] name = "buf_mem" -> [w EXCEPT !.buf_mem = monotonic_buffer_resource(up, t)]
      [] name = "pool_mem" -> [w EXCEPT !.pool_mem = unsynchronized_pool_resource(up, t)]

Running == main(program)[test]

\* a workload that allocates from the default resource, whatever the test
\* handed over
Memory_bypassing == new_delete_resource

\* the resource the workload allocates from
Memory ==
    IF program = "pmr_test" THEN memory
    ELSE get_eigen_memory_resource(state).ret

InitHarness ==
    /\ program \in Programs
    /\ db_mem = NoDebug
    /\ buf_mem = NoArena
    /\ pool_mem = NoPool
    /\ heap = HeapInit
    /\ upstream = UpstreamInit
    /\ state = StateInit
    /\ trace = <<>>
    /\ ub = FALSE
    /\ live = {}
    /\ calls = 0
    /\ pc = "main"
    /\ test = 0
    /\ stack = <<>>
    /\ memory = NullRef
    /\ ret = NullRef
    /\ installed = NullRef
    /\ sum_alloc = 0
    /\ sum_dealloc = 0
    /\ max_prefix = 0
    /\ misuse = FALSE
    /\ equal = FALSE

\* pmr_test.cpp: no_resource_test() touches no memory_resource
NoResourceTest ==
    /\ pc = "main"
    /\ test < Len(main(program))
    /\ main(program)[test + 1] = "no_resource_test"
    /\ test' = test + 1
    /\ UNCHANGED <<program, equal, ret, objects, state, trace, ub, live, calls, pc, stack,
                   memory, ghosts>>

\* a test is called and constructs db_mem
EnterTest ==
    /\ pc = "main"
    /\ test < Len(main(program))
    /\ main(program)[test + 1] # "no_resource_test"
    /\ test' = test + 1
    /\ Becomes(Construct(World(TRUE), "db_mem", new_delete_resource, test + 1))
    /\ stack' = <<"db_mem">>
    /\ pc' = "block"
    /\ UNCHANGED <<program, equal, ret, state, live, calls, memory, ghosts>>

\* the next object of the inner block is constructed
ConstructLayer ==
    /\ pc = "block"
    /\ Len(stack) - 1 < Len(InnerBlock(Running))
    /\ LET k == Len(stack)
           name == InnerBlock(Running)[k]
       IN  /\ Becomes(Construct(World(TRUE), name,
                                Ref(UpstreamArg(Running, k), test), test))
           /\ stack' = Append(stack, name)
    /\ UNCHANGED <<program, equal, ret, state, live, calls, pc, test, memory, ghosts>>

\* set_eigen_memory_resource(&head); do_tests()  /  do_tests(&head)
StartTests ==
    /\ pc = "block"
    /\ Len(stack) - 1 = Len(InnerBlock(Running))
    /\ IF program = "pmr_test"
       THEN /\ memory' = Ref(Installed(Running), test)
            /\ UNCHANGED <<state, installed>>
       ELSE /\ state' = set_eigen_memory_resource(state, Ref(Installed(Running), test))
            /\ installed' = Ref(Installed(Running), test)
            /\ memory' = memory
    /\ calls' = 0
    /\ pc' = "do_tests"
    /\ UNCHANGED <<program, equal, ret, objects, trace, ub, live, test, stack,
                   sum_alloc, sum_dealloc, max_prefix, misuse>>

\* what a container asks its resource for: n * sizeof(T) bytes at alignof(T),
\* a multiple of the alignment
Requests == {r \in Sizes \X Alignments : r[1] % r[2] = 0}

\* the workload allocates; an exception nobody catches ends the process
TestAllocate(bytes, alignment, ok) ==
    /\ pc = "do_tests"
    /\ ~ub
    /\ calls < MaxAllocs
    /\ LET r == Allocate(World(ok), Memory, bytes, alignment)
       IN  /\ Becomes(r.w)
           /\ live' = IF r.threw THEN live
                      ELSE live \cup {Block(r.ptr, bytes, alignment)}
           /\ pc' = IF r.threw THEN "terminated" ELSE pc
    /\ calls' = calls + 1
    /\ UNCHANGED <<program, equal, ret, state, test, stack, memory, ghosts>>

\* the workload releases one of its allocations
TestDeallocate(b) ==
    /\ pc = "do_tests"
    /\ ~ub
    /\ b \in live
    /\ Becomes(Deallocate(World(TRUE), Memory, b.ptr, b.bytes, b.alignment))
    /\ live' = live \ {b}
    /\ UNCHANGED <<program, equal, ret, state, calls, control, ghosts>>

\* do_tests returns: every container of the workload has been destroyed
EndTests ==
    /\ pc = "do_tests"
    /\ ~ub
    /\ live = {}
    /\ pc' = "exit"
    /\ memory' = NullRef
    /\ UNCHANGED <<program, equal, ret, objects, state, trace, ub, live, calls, test, stack,
                   ghosts>>

\* the inner block is left: the destructor of one of its objects runs
LeaveBlock ==
    /\ pc = "exit"
    /\ ~ub
    /\ Len(stack) > 1
    /\ LET victim == NextDestroyed(stack)
       IN  /\ Becomes(Destroy(World(TRUE), victim))
           /\ stack' = SelectSeq(stack, LAMBDA n : n # victim)
    /\ UNCHANGED <<program, equal, ret, state, live, calls, pc, test, memory, ghosts>>

\* report(&db_mem) reads the counters
Report ==
    /\ pc = "exit"
    /\ ~ub
    /\ Len(stack) = 1
    /\ pc' = "reported"
    /\ UNCHANGED <<program, equal, ret, objects, state, trace, ub, live, calls, test, stack,
                   memory, ghosts>>

\* the test returns: db_mem is destroyed
Return ==
    /\ pc = "reported"
    /\ LET w == Destroy(World(TRUE), "db_mem")
       IN  Becomes([w EXCEPT !.trace = <<>>])
    /\ stack' = <<>>
    /\ calls' = 0
    /\ pc' = "main"
    /\ UNCHANGED <<program, equal, ret, state, live, test, memory, ghosts>>

\* main returns 0
MainReturn ==
    /\ pc = "main"
    /\ test = Len(main(program))
    /\ pc' = "done"
    /\ UNCHANGED <<program, equal, ret, objects, state, trace, ub, live, calls, test, stack,
                   memory, ghosts>>

NextHarness ==
    \/ NoResourceTest
    \/ EnterTest
    \/ ConstructLayer
    \/ StartTests
    \/ \E r \in Requests, ok \in BOOLEAN : TestAllocate(r[1], r[2], ok)
    \/ \E b \in live : TestDeallocate(b)
    \/ EndTests
    \/ LeaveBlock
    \/ Report
    \/ Return
    \/ MainReturn

SpecHarness == InitHarness /\ [][NextHarness]_vars

(***************************************************************************)
(* SpecRegistry: orchestration code uses the registry freely.  Three       *)
(* resources exist, db_mem over new_delete_resource(), buf_mem over        *)
(* db_mem and pool_mem over new_delete_resource(); the client installs     *)
(* any of them, reads the slot, allocates and deallocates through the      *)
(* resource the slot names at the time of the call (as the numerics        *)
(* library does through EIGEN_MEMORY_RESOURCE), and destroys objects.      *)
(***************************************************************************)
InitRegistry ==
    /\ program = "pmr_eigen_test"
    /\ db_mem = DebugMemoryResource(new_delete_resource, 0)
    /\ buf_mem = monotonic_buffer_resource(Ref("db_mem", 0), 0)
    /\ pool_mem = unsynchronized_pool_resource(new_delete_resource, 0)
    /\ heap = HeapInit
    /\ upstream = UpstreamInit
    /\ state = StateInit
    /\ ret = NullRef
    /\ trace = <<>>
    /\ ub = FALSE
    /\ live = {}
    /\ calls = 0
    /\ pc = "client"
    /\ test = 0
    /\ stack = <<"db_mem", "buf_mem", "pool_mem">>
    /\ memory = NullRef
    /\ installed = NullRef
    /\ sum_alloc = 0
    /\ sum_dealloc = 0
    /\ max_prefix = 0
    /\ misuse = FALSE
    /\ equal = FALSE

\* the resources the client can name
Installable ==
    {new_delete_resource} \cup
    {Ref(n, 0) : n \in {m \in {"db_mem", "buf_mem", "pool_mem"} : m \in Range(stack)}}

RegGet ==
    /\ pc = "client"
    /\ ~ub
    /\ calls < MaxSteps
    /\ LET r == get_eigen_memory_resource(state)
       IN  /\ state' = r.state
           /\ ret' = r.ret
    /\ calls' = calls + 1
    /\ UNCHANGED <<program, equal, objects, trace, ub, live, control, ghosts>>

\* a set that runs the destructor of the resource it replaces
RegSet_releasing(r) ==
    /\ pc = "client"
    /\ ~ub
    /\ calls < MaxSteps
    /\ state' = set_eigen_memory_resource(state, r)
    /\ installed' = r
    /\ Becomes(IF state.memory.name \in Range(stack)
               THEN Destroy(World(TRUE), state.memory.name)
               ELSE World(TRUE))
    /\ calls' = calls + 1
    /\ UNCHANGED <<program, equal, ret, live, control,
                   sum_alloc, sum_dealloc, max_prefix, misuse>>

RegSet(r) ==
    /\ pc = "client"
    /\ ~ub
    /\ calls < MaxSteps
    /\ state' = set_eigen_memory_resource(state, r)
    /\ installed' = r
    /\ calls' = calls + 1
    /\ UNCHANGED <<program, equal, objects, ret, trace, ub, live, control,
                   sum_alloc, sum_dealloc, max_prefix, misuse>>

\* an allocation of the numerics library: EIGEN_MEMORY_RESOURCE->allocate;
\* an exception nobody catches ends the process
RegAllocate(bytes, alignment, ok) ==
    /\ pc = "client"
    /\ ~ub
    /\ calls < MaxSteps
    /\ LET via == get_eigen_memory_resource(state).ret
           r == Allocate(World(ok), via, bytes, alignment)
       IN  /\ Becomes(r.w)
           /\ live' = IF r.threw \/ r.w.ub THEN live
                      ELSE live \cup {[ptr |-> r.ptr, bytes |-> bytes,
                                       alignment |-> alignment, via |-> via]}
           /\ pc' = IF r.threw THEN "terminated" ELSE pc
    /\ calls' = calls + 1
    /\ UNCHANGED <<program, equal, state, ret, test, stack, memory, ghosts>>

\* a release of the numerics library: EIGEN_MEMORY_RESOURCE->deallocate
RegDeallocate(x) ==
    /\ pc = "client"
    /\ ~ub
    /\ calls < MaxSteps
    /\ x \in live
    /\ Becomes(Deallocate(World(TRUE), get_eigen_memory_resource(state).ret,
                          x.ptr, x.bytes, x.alignment))
    /\ live' = live \ {x}
    /\ calls' = calls + 1
    /\ UNCHANGED <<program, equal, state, ret, control, ghosts>>

\* an object's lifetime ends
RegDestroy(n) ==
    /\ pc = "client"
    /\ ~ub
    /\ calls < MaxSteps
    /\ n \in Range(stack)
    /\ Becomes(Destroy(World(TRUE), n))
    /\ stack' = SelectSeq(stack, LAMBDA m : m # n)
    /\ calls' = calls + 1
    /\ UNCHANGED <<program, equal, state, ret, live, pc, test, memory, ghosts>>

NextRegistry ==
    \/ RegGet
    \/ \E r \in Installable : RegSet(r)
    \/ \E b \in Sizes, a \in Alignments, ok \in BOOLEAN : RegAllocate(b, a, ok)
    \/ \E x \in live : RegDeallocate(x)
    \/ \E n \in {"db_mem", "buf_mem", "pool_mem"} : RegDestroy(n)

SpecRegistry == InitRegistry /\ [][NextRegistry]_vars

(***************************************************************************)
(* SpecCounters: a long run on one DebugMemoryResource, long enough for    *)
(* an int counter to reach INT_MAX.  db_mem is constructed over some       *)
(* upstream and buf_mem over db_mem; the client calls allocate,            *)
(* deallocate and is_equal on db_mem, allocates from buf_mem, and (in      *)
(* pmr_eigen_test.cpp) reads and writes the registry.  Every request is    *)
(* for one byte and the upstream satisfies it.  trace holds the calls of   *)
(* the last operation only.                                                *)
(***************************************************************************)
\* as many calls as take an int counter past INT_MAX
CountCalls == IntMod \div 2 + 1

InitCounters ==
    /\ program \in Programs
    /\ db_mem = DebugMemoryResource(Ref("upstream", 0), 0)
    /\ buf_mem = monotonic_buffer_resource(Ref("db_mem", 0), 0)
    /\ pool_mem = NoPool
    /\ heap = HeapInit
    /\ upstream = UpstreamInit
    /\ state = StateInit
    /\ ret = NullRef
    /\ trace = <<>>
    /\ ub = FALSE
    /\ live = {}
    /\ calls = 0
    /\ pc = "client"
    /\ test = 0
    /\ stack = <<"db_mem", "buf_mem">>
    /\ memory = NullRef
    /\ installed = NullRef
    /\ sum_alloc = 0
    /\ sum_dealloc = 0
    /\ max_prefix = 0
    /\ misuse = FALSE
    /\ equal = FALSE

\* the world an operation of the long run starts from
Fresh(ok, j) == [WorldUB(ok, j) EXCEPT !.trace = <<>>]

\* what an int counter can come out as when ++ is applied to n
Outcomes(n) == IF Overflows(program, n) THEN Ints ELSE {0}

CountAllocate(j) ==
    /\ ~ub
    /\ calls < CountCalls
    /\ Becomes(Allocate(Fresh(TRUE, j), Ref("db_mem", 0), 1, 1).w)
    /\ calls' = calls + 1
    /\ UNCHANGED <<program, equal, state, ret, live, control, ghosts>>

CountDeallocate(j) ==
    /\ ~ub
    /\ calls < CountCalls
    /\ Becomes(Deallocate(Fresh(TRUE, j), Ref("db_mem", 0), NullPtr, 1, 1))
    /\ calls' = calls + 1
    /\ UNCHANGED <<program, equal, state, ret, live, control, ghosts>>

CountIsEqual(other) ==
    /\ ~ub
    /\ calls < CountCalls
    /\ LET r == do_is_equal(Fresh(TRUE, 0), other)
       IN  /\ Becomes(r.w)
           /\ equal' = r.ret
    /\ calls' = calls + 1
    /\ UNCHANGED <<program, state, ret, live, control, ghosts>>

\* an allocation from the arena built over db_mem
CountArenaAllocate(j) ==
    /\ ~ub
    /\ calls < CountCalls
    /\ Becomes(Allocate(Fresh(TRUE, j), Ref("buf_mem", 0), 1, 1).w)
    /\ calls' = calls + 1
    /\ UNCHANGED <<program, equal, state, ret, live, control, ghosts>>

CountGet ==
    /\ ~ub
    /\ program = "pmr_eigen_test"
    /\ calls < CountCalls
    /\ LET r == get_eigen_memory_resource(state)
       IN  /\ state' = r.state
           /\ ret' = r.ret
    /\ trace' = <<>>
    /\ calls' = calls + 1
    /\ UNCHANGED <<program, equal, objects, ub, live, control, ghosts>>

CountSet(r) ==
    /\ ~ub
    /\ program = "pmr_eigen_test"
    /\ calls < CountCalls
    /\ state' = set_eigen_memory_resource(state, r)
    /\ installed' = r
    /\ trace' = <<>>
    /\ calls' = calls + 1
    /\ UNCHANGED <<program, equal, objects, ret, ub, live, control,
                   sum_alloc, sum_dealloc, max_prefix, misuse>>

NextCounters ==
    \/ \E j \in Outcomes(db_mem.num_allocs) : CountAllocate(j)
    \/ \E j \in Outcomes(db_mem.num_deallocs) : CountDeallocate(j)
    \/ \E o \in {Ref("db_mem", 0), Ref("buf_mem", 0)} : CountIsEqual(o)
    \/ \E j \in Outcomes(db_mem.num_allocs) : CountArenaAllocate(j)
    \/ CountGet
    \/ CountSet(Ref("db_mem", 0))

SpecCounters == InitCounters /\ [][NextCounters]_vars

(***************************************************************************)
(* Vocabulary of the properties.                                           *)
(***************************************************************************)
\* a test is running: its objects exist
InTest == pc \in {"block", "do_tests", "exit", "reported", "terminated"}

\* the objects of the running test in construction order
Constructed(t) == <<"db_mem">> \o InnerBlock(t)

ObjectOf(name) ==
    CASE name = "db_mem" -> db_mem
      [] name = "buf_mem" -> buf_mem
      [] name = "pool_mem" -> pool_mem

AliveNames == {n \in {"db_mem", "buf_mem", "pool_mem"} : ObjectOf(n).alive}

\* the test declares the object and gives it &up as its upstream
Over(t, name, up) ==
    \E k \in 1 .. Len(InnerBlock(t)) :
        InnerBlock(t)[k] = name /\ UpstreamArg(t, k) = up

\* the successful allocate calls and the deallocate calls made on a resource
AllocsOn(name) ==
    SelectSeq(trace, LAMBDA e : e.on = name /\ e.op = "allocate" /\ ~e.threw)
DeallocsOn(name) ==
    SelectSeq(trace, LAMBDA e : e.on = name /\ e.op = "deallocate")

BlockOf(e) == Block(e.ptr, e.bytes, e.alignment)
Times(seq, b) == Cardinality({i \in 1 .. Len(seq) : BlockOf(seq[i]) = b})
BlocksIn(seq) == {BlockOf(seq[i]) : i \in 1 .. Len(seq)}

\* every block of allocs is in deallocs as often as it is in allocs
ReturnedExactly(allocs, deallocs) ==
    \A b \in BlocksIn(allocs) \cup BlocksIn(deallocs) :
        Times(allocs, b) = Times(deallocs, b)

(***************************************************************************)
(* C1.  After any sequence of allocate and deallocate calls on a fresh     *)
(* DebugMemoryResource, curr_bytes is the sum of the sizes allocated minus *)
(* the sum of the sizes deallocated, and max_bytes is the largest value    *)
(* that difference took after any prefix of the sequence.                  *)
(***************************************************************************)
C1_CountersAreTheSums ==
    /\ db_mem.curr_bytes = sum_alloc - sum_dealloc
    /\ db_mem.max_bytes = max_prefix

(***************************************************************************)
(* C2.  In every state get_eigen_memory_resource() returns the default     *)
(* resource if set_eigen_memory_resource was never called and the argument *)
(* of the last set otherwise; a get returns that resource and leaves the   *)
(* slot as it was.                                                         *)
(***************************************************************************)
Expected == IF installed = NullRef THEN get_default_resource ELSE installed

C2_GetReturnsLastSet ==
    /\ [](get_eigen_memory_resource(state).ret = Expected)
    /\ [][RegGet => (ret' = Expected /\ state' = state)]_vars

\* a get after a second set, with allocations made under the first
C2_Witness ==
    /\ installed = Ref("pool_mem", 0)
    /\ ret = installed
    /\ db_mem.num_allocs > 0

(***************************************************************************)
(* C3.  The calls db_mem's upstream receives are the calls made on db_mem, *)
(* one for one and in order, with the same bytes, alignment and pointer;   *)
(* each returns to the caller what the upstream returned: its pointer, or  *)
(* its exception.                                                          *)
(***************************************************************************)
C3_DecoratorIsTransparent == SeenOn("upstream") = SeenOn("db_mem")

\* a failed allocate, a successful one and a deallocate have gone through
C3_Witness ==
    /\ \E i \in 1 .. Len(trace) :
           trace[i].on = "db_mem" /\ trace[i].op = "allocate" /\ trace[i].threw
    /\ \E i \in 1 .. Len(trace) :
           trace[i].on = "db_mem" /\ trace[i].op = "allocate" /\ ~trace[i].threw
    /\ \E i \in 1 .. Len(trace) :
           trace[i].on = "db_mem" /\ trace[i].op = "deallocate"

(***************************************************************************)
(* C5.  Whenever three calls in a row on the pool are allocate(s),         *)
(* deallocate of the block it returned, allocate(s), with s no larger than *)
(* the largest size class and the same alignment, the pool's upstream      *)
(* receives no call during the deallocate and none during the second       *)
(* allocate, which returns a block.                                        *)
(***************************************************************************)
\* the positions in the trace of the calls on the pool, in order
PoolCalls ==
    SelectSeq([i \in 1 .. Len(trace) |-> i], LAMBDA i : trace[i].on = "pool_mem")

\* the calls at i, j, k make a round trip
RoundTrip(i, j, k) ==
    /\ trace[i].op = "allocate" /\ ~trace[i].threw
    /\ Max(trace[i].bytes, trace[i].alignment) <= LargestClass
    /\ trace[j].op = "deallocate"
    /\ BlockOf(trace[j]) = BlockOf(trace[i])
    /\ trace[k].op = "allocate"
    /\ trace[k].bytes = trace[i].bytes
    /\ trace[k].alignment = trace[i].alignment

\* the variable holding the pool's upstream in the running test
PoolUpstream ==
    CHOOSE up \in {"db_mem", "buf_mem"} : Over(Running, "pool_mem", up)

C5_PoolRoundTripReuse ==
    (InTest /\ \E up \in {"db_mem", "buf_mem"} : Over(Running, "pool_mem", up)) =>
        LET P == PoolCalls
        IN  \A n \in 1 .. Len(P) - 2 :
                RoundTrip(P[n], P[n + 1], P[n + 2]) =>
                    /\ \A m \in P[n] + 1 .. P[n + 2] : trace[m].on # PoolUpstream
                    /\ ~trace[P[n + 2]].threw

\* a round trip on the pool of pool_resource_test
C5_Witness ==
    /\ InTest
    /\ Running = "pool_resource_test"
    /\ \E n \in 1 .. Len(PoolCalls) - 2 :
           RoundTrip(PoolCalls[n], PoolCalls[n + 1], PoolCalls[n + 2])

(***************************************************************************)
(* C8.  Once a resource that was installed in the registry and allocated   *)
(* from has been replaced in the registry and then destroyed while         *)
(* allocations made through it are outstanding, a contract violation has   *)
(* been flagged: the process has been stopped with a fault.                *)
(***************************************************************************)
\* some outstanding allocation was made through a resource since replaced
\* in the registry and destroyed
DestroyedWithLiveAllocations ==
    \E x \in live :
        /\ x.via # state.memory
        /\ ~Exists(World(TRUE), x.via)

\* the only way the program has of stopping with a fault
ContractViolationFlagged == pc = "terminated"

C8_ViolationIsFlagged ==
    DestroyedWithLiveAllocations => ContractViolationFlagged

(***************************************************************************)
(* C10.  As long as every deallocate matched an allocation still           *)
(* outstanding, curr_bytes has not gone below zero (for the int counter:   *)
(* it is not negative; for the std::size_t counter: it has not wrapped     *)
(* around, it is the number of bytes allocated and not deallocated) and    *)
(* num_deallocs is at most num_allocs.                                     *)
(***************************************************************************)
C10_NeverNegativeInCorrectUse ==
    ~misuse =>
        /\ db_mem.num_deallocs <= db_mem.num_allocs
        /\ IF program = "pmr_test"
           THEN db_mem.curr_bytes = sum_alloc - sum_dealloc
           ELSE db_mem.curr_bytes >= 0

(***************************************************************************)
(* C4.  For an Arena declared directly over the Debug Decorator: as long   *)
(* as the arena is alive the decorator has received no deallocate call     *)
(* (num_deallocs = 0), whatever the workload deallocated; once the arena   *)
(* is destroyed the decorator has received one deallocate call for each    *)
(* region the arena requested from it, and no other.                       *)
(***************************************************************************)
C4_ArenaReleasesOnlyOnDestruction ==
    (InTest /\ Over(Running, "buf_mem", "db_mem")) =>
        /\ buf_mem.alive =>
             /\ db_mem.num_deallocs = 0
             /\ DeallocsOn("db_mem") = <<>>
        /\ (~buf_mem.alive /\ pc \in {"exit", "reported"}) =>
             /\ ReturnedExactly(AllocsOn("db_mem"), DeallocsOn("db_mem"))
             /\ \A b \in BlocksIn(AllocsOn("db_mem")) :
                    Times(DeallocsOn("db_mem"), b) = 1
             /\ db_mem.num_deallocs = Len(AllocsOn("db_mem"))

\* the arena of buffer_resource_test took two regions, the workload
\* deallocated through it, and the arena has been destroyed
C4_Witness ==
    /\ pc = "reported"
    /\ Running = "buffer_resource_test"
    /\ Len(AllocsOn("db_mem")) >= 2
    /\ DeallocsOn("buf_mem") # <<>>
    /\ db_mem.num_deallocs >= 2

(***************************************************************************)
(* C6.  In every test, once the workload has released all it allocated     *)
(* and the objects of the inner block are destroyed (the state report      *)
(* reads), db_mem has num_allocs = num_deallocs and curr_bytes = 0, every  *)
(* block requested from it has been returned to it exactly as often as it  *)
(* was handed out, and the system allocator holds no block.                *)
(***************************************************************************)
C6_TeardownBalanced ==
    pc = "reported" =>
        /\ db_mem.num_allocs = db_mem.num_deallocs
        /\ db_mem.curr_bytes = 0
        /\ ReturnedExactly(AllocsOn("db_mem"), DeallocsOn("db_mem"))
        /\ heap.blocks = {}

\* a two-layer chain has been torn down after it made upstream requests
C6_Witness ==
    /\ pc = "reported"
    /\ Running = "buffer_backed_pool_resource_test"
    /\ program = "pmr_eigen_test"
    /\ db_mem.num_allocs >= 2
    /\ db_mem.max_bytes > 0

(***************************************************************************)
(* C7.  In every test the objects alive are a prefix of the construction   *)
(* order (db_mem, then the inner block in declaration order), so objects   *)
(* are destroyed in reverse of construction; and the upstream of every     *)
(* alive object, followed to the bottom, is an object that still exists.   *)
(***************************************************************************)
RECURSIVE UpstreamsExist(_, _)
UpstreamsExist(ref, depth) ==
    \/ ref.name = "new_delete"
    \/ /\ depth > 0
       /\ Exists(World(TRUE), ref)
       /\ UpstreamsExist(ObjectOf(ref.name).upstream, depth - 1)

C7_ReverseOrderTeardown ==
    InTest =>
        /\ \E k \in 0 .. Len(Constructed(Running)) :
               AliveNames = {Constructed(Running)[i] : i \in 1 .. k}
        /\ \A n \in AliveNames : UpstreamsExist(ObjectOf(n).upstream, 3)
        /\ AliveNames # {} => db_mem.alive

\* a two-layer chain with its outer layer destroyed and its inner one alive
C7_Witness ==
    /\ pc = "exit"
    /\ Len(InnerBlock(Running)) = 2
    /\ Len(stack) = 2
    /\ Cardinality(AliveNames) = 2

(***************************************************************************)
(* C9.  In pmr_eigen_test.cpp, the resource the registry slot refers to    *)
(* exists, in every state of the run.                                      *)
(***************************************************************************)
C9_SlotNeverDangles ==
    program = "pmr_eigen_test" => Exists(World(TRUE), state.memory)

(***************************************************************************)
(* C11.  In every step num_allocs, num_deallocs and max_bytes do not       *)
(* decrease and none of them goes back to zero; the four counters change   *)
(* only in a step in which allocate or deallocate was called on db_mem;    *)
(* is_equal, the registry's get and set, and an operation of the arena     *)
(* that calls nothing on db_mem leave them as they were.                   *)
(***************************************************************************)
Counters(d) == <<d.num_allocs, d.num_deallocs, d.curr_bytes, d.max_bytes>>

C11_CountersOnlyGrowInOwnCalls ==
    [][/\ db_mem'.num_allocs >= db_mem.num_allocs
       /\ db_mem'.num_deallocs >= db_mem.num_deallocs
       /\ db_mem'.max_bytes >= db_mem.max_bytes
       /\ db_mem.num_allocs # 0 => db_mem'.num_allocs # 0
       /\ db_mem.num_deallocs # 0 => db_mem'.num_deallocs # 0
       /\ db_mem.max_bytes # 0 => db_mem'.max_bytes # 0
       /\ Counters(db_mem') # Counters(db_mem) =>
              \E i \in 1 .. Len(trace') : trace'[i].on = "db_mem"
       /\ ((\E o \in {Ref("db_mem", 0), Ref("buf_mem", 0)} : CountIsEqual(o))
              \/ CountGet
              \/ CountSet(Ref("db_mem", 0)))
              => Counters(db_mem') = Counters(db_mem)]_vars

\* the same, for the steps in which no counter was incremented past its limit
C11_HoldsBelowTheLimit ==
    [][~ub' =>
         /\ db_mem'.num_allocs >= db_mem.num_allocs
         /\ db_mem'.num_deallocs >= db_mem.num_deallocs
         /\ db_mem'.max_bytes >= db_mem.max_bytes
         /\ Counters(db_mem') # Counters(db_mem) =>
                \E i \in 1 .. Len(trace') : trace'[i].on = "db_mem"]_vars

(***************************************************************************)
(* C12.  When the upstream's allocate throws during an allocate call on    *)
(* db_mem, the exception reaches the caller and the request has been       *)
(* counted all the same: num_allocs, curr_bytes and max_bytes are what     *)
(* all the allocate calls made on db_mem, failed ones included, and the    *)
(* deallocate calls give, in the counters' arithmetic.                     *)
(***************************************************************************)
\* num_allocs, curr_bytes and max_bytes as the calls of seq give them;
\* failed says whether an allocate that threw counts
RECURSIVE Replay(_, _)
Replay(seq, failed) ==
    IF seq = <<>>
    THEN [num_allocs |-> 0, curr_bytes |-> 0, max_bytes |-> 0]
    ELSE LET r == Replay(SubSeq(seq, 1, Len(seq) - 1), failed)
             e == seq[Len(seq)]
             c == AddBytes(program, r.curr_bytes, e.bytes)
         IN  IF e.op = "deallocate"
             THEN [r EXCEPT !.curr_bytes = SubBytes(program, @, e.bytes)]
             ELSE IF e.threw /\ ~failed THEN r
             ELSE [num_allocs |-> r.num_allocs + 1,
                   curr_bytes |-> c,
                   max_bytes |-> Max(r.max_bytes, c)]

AllocCounters(d) ==
    [num_allocs |-> d.num_allocs, curr_bytes |-> d.curr_bytes,
     max_bytes |-> d.max_bytes]

C12_FailedRequestIsCounted ==
    AllocCounters(db_mem) = Replay(CallsOn("db_mem"), TRUE)

\* the statement as the specification has it: a failed request leaves no mark
C12_FailedRequestLeavesNoMark ==
    AllocCounters(db_mem) = Replay(CallsOn("db_mem"), FALSE)

\* the last call on db_mem was an allocate that threw, after one that did not
C12_Witness ==
    /\ Len(CallsOn("db_mem")) >= 2
    /\ CallsOn("db_mem")[Len(CallsOn("db_mem"))].threw
    /\ db_mem.num_allocs = Len(AllocsOn("db_mem")) + 1
    /\ AllocsOn("db_mem") # <<>>

(***************************************************************************)
(* C13.  In every test of pmr_eigen_test.cpp: no allocation is made        *)
(* before the chain is complete and its head is in the registry; while     *)
(* the workload runs the whole chain is alive and the registry names its   *)
(* head; when the inner block is left the workload has released all it     *)
(* allocated; when the counters are read only db_mem is left of the        *)
(* chain; db_mem is the decorator this test constructed, it has counted    *)
(* the calls made on it in this test and no others, and every block any    *)
(* layer handed out lies in memory db_mem was asked for in this test.      *)
(***************************************************************************)
\* the block a pointer points into
Base(ptr) == ptr[1]

C13_ScenarioOrder ==
    (program = "pmr_eigen_test" /\ InTest) =>
        /\ pc = "block" => trace = <<>> /\ live = {}
        /\ pc = "do_tests" =>
             /\ AliveNames = Range(Constructed(Running))
             /\ state.memory = Ref(Installed(Running), test)
             /\ Exists(World(TRUE), state.memory)
        /\ pc \in {"exit", "reported"} => live = {}
        /\ pc = "reported" => AliveNames = {"db_mem"}
        /\ db_mem.alive => db_mem.test = test
        /\ db_mem.num_allocs = Len(SelectSeq(CallsOn("db_mem"),
                                             LAMBDA e : e.op = "allocate"))
        /\ db_mem.num_deallocs = Len(DeallocsOn("db_mem"))
        /\ LET counted == {Base(e.ptr) : e \in Range(AllocsOn("db_mem"))}
           IN  \A i \in 1 .. Len(trace) :
                   (trace[i].op = "allocate" /\ ~trace[i].threw) =>
                       Base(trace[i].ptr) \in counted

\* the counters of the last test are read after its arena and its pool are gone
C13_Witness ==
    /\ program = "pmr_eigen_test"
    /\ pc = "reported"
    /\ Running = "pool_backed_buffer_resource_test"
    /\ test = Len(main(program))
    /\ Len(CallsOn("buf_mem")) >= 2
    /\ db_mem.num_deallocs >= 1

(***************************************************************************)
(* C14.  max_bytes is at least curr_bytes in every state of a              *)
(* DebugMemoryResource, whatever was allocated and deallocated, with the   *)
(* int counters and with the std::size_t counters.                         *)
(***************************************************************************)
C14_PeakAtLeastCurrent == db_mem.max_bytes >= db_mem.curr_bytes

\* the same for the int counters alone
C14_PeakAtLeastCurrentInt ==
    program = "pmr_eigen_test" => db_mem.max_bytes >= db_mem.curr_bytes

\* the same as long as curr_bytes has not left the range of its type
C14_HoldsWithoutWrap ==
    (sum_alloc < HugeBytes /\ sum_alloc >= sum_dealloc) =>
        db_mem.max_bytes >= db_mem.curr_bytes

(***************************************************************************)
(* C15.  A step that changes the registry slot is a set, and a set changes *)
(* nothing but the slot: no call is made on any resource (the trace does   *)
(* not grow), no object is destroyed or changed (counters, free lists,     *)
(* regions, the allocator's blocks), the outstanding allocations stay as   *)
(* they are, and the set goes through whatever is outstanding on the       *)
(* resource it replaces.                                                   *)
(***************************************************************************)
NothingButTheSlot ==
    /\ objects' = objects
    /\ trace' = trace
    /\ live' = live
    /\ ub' = ub
    /\ pc' = pc

C15_SetChangesOnlyTheSlot ==
    [][/\ state' # state => NothingButTheSlot
       /\ \A r \in Installable :
              RegSet(r) => (NothingButTheSlot /\ state' = [memory |-> r])]_vars

\* buf_mem was installed while an allocation made through db_mem was
\* outstanding; db_mem still counts it
C15_Witness ==
    /\ state.memory = Ref("buf_mem", 0)
    /\ \E x \in live : x.via = Ref("db_mem", 0)
    /\ db_mem.alive
    /\ db_mem.curr_bytes > 0
    /\ db_mem.num_deallocs = 0

(***************************************************************************)
(* C16.  For an arena declared directly over db_mem: as long as the        *)
(* requests made on the arena, laid out one after the other at their       *)
(* alignments, fit in the first region, exactly one allocate call has      *)
(* reached db_mem, the one for the first region; and an arena allocate     *)
(* for more bytes than the next region would have makes exactly one        *)
(* allocate call on db_mem, for at least the bytes requested.              *)
(***************************************************************************)
\* the positions in the trace of the calls on the arena
ArenaCalls ==
    SelectSeq([i \in 1 .. Len(trace) |-> i], LAMBDA i : trace[i].on = "buf_mem")

\* the allocate calls made on a resource, failed ones included
RequestsOn(name) == SelectSeq(CallsOn(name), LAMBDA e : e.op = "allocate")

\* where the bump cursor stands after the requests of seq
RECURSIVE Extent(_)
Extent(seq) ==
    IF seq = <<>> THEN 0
    ELSE LET e == seq[Len(seq)]
         IN  AlignUp(Extent(SubSeq(seq, 1, Len(seq) - 1)), e.alignment) + e.bytes

\* the positions of the calls made on db_mem during the n-th call on the arena
During(n) ==
    LET from == IF n = 1 THEN 0 ELSE ArenaCalls[n - 1]
    IN  {i \in from + 1 .. ArenaCalls[n] - 1 : trace[i].on = "db_mem"}

\* the size the arena's next region has by default before the n-th call on it
RegionSizeBefore(n) ==
    LET got == {i \in 1 .. ArenaCalls[n] :
                    /\ trace[i].on = "db_mem"
                    /\ trace[i].op = "allocate"
                    /\ ~trace[i].threw
                    /\ i \notin During(n)}
    IN  IF got = {} THEN InitialRegion
        ELSE growth_policy(trace[CHOOSE i \in got : \A j \in got : j <= i].bytes)

C16_FirstRegionServesWhatFits ==
    (InTest /\ Over(Running, "buf_mem", "db_mem")) =>
        /\ (RequestsOn("buf_mem") # <<>>
               /\ Extent(RequestsOn("buf_mem")) <= InitialRegion) =>
              /\ Len(RequestsOn("db_mem")) = 1
              /\ RequestsOn("db_mem")[1].bytes = InitialRegion
        /\ \A n \in 1 .. Len(ArenaCalls) :
               LET e == trace[ArenaCalls[n]]
               IN  (e.op = "allocate" /\ e.bytes > RegionSizeBefore(n)) =>
                       /\ Cardinality(During(n)) = 1
                       /\ \A i \in During(n) :
                              /\ trace[i].op = "allocate"
                              /\ trace[i].bytes >= e.bytes

\* three requests of buffer_resource_test were served from the first region
C16_Witness ==
    /\ pc = "do_tests"
    /\ Running = "buffer_resource_test"
    /\ Len(AllocsOn("buf_mem")) = 3
    /\ Extent(RequestsOn("buf_mem")) <= InitialRegion
    /\ db_mem.num_allocs = 1

\* a request of buffer_resource_test got a region of its own
C16_Oversized ==
    /\ InTest
    /\ Running = "buffer_resource_test"
    /\ \E n \in 1 .. Len(ArenaCalls) :
           /\ trace[ArenaCalls[n]].op = "allocate"
           /\ ~trace[ArenaCalls[n]].threw
           /\ trace[ArenaCalls[n]].bytes > RegionSizeBefore(n)

====
